---- MODULE Spec2Model ----
(***************************************************************************)
(* Model of the os-dev kernel core: the physical frame allocator           *)
(* (memory/mod.rs), the fixed-size-block heap allocator                    *)
(* (memory/fixed_size_heap.rs) and the 8259 interrupt controller driver    *)
(* with its interrupt handlers (interrupts/pic.rs, interrupt_manager.rs).  *)
(***************************************************************************)
EXTENDS Integers, Sequences, FiniteSets, TLC

VARIABLES
    memory_map,   \* InternalFrameAllocator.memory_map: sequence of regions
    next,         \* InternalFrameAllocator.next
    returned,     \* results of the allocate_frame() calls made so far
    initialized,  \* FixedSizeAllocator::init has run
    heap_address, \* init's heap_address argument
    heap_size,    \* init's heap_size argument
    heads,        \* FixedSizeAllocator.heads, indexed from 0
    mem,          \* the MemoryNode written at each address: its next field
    live,         \* blocks handed out and not yet released, with their layout
    violations,   \* dealloc calls made with another layout than the alloc's
    last,         \* the latest heap operation: arguments, result, diagnostic
    prev,         \* the heap operation before the latest
    sel_layout,   \* Layout handed to block_size_for
    sel_result,   \* what block_size_for returned for it
    hw,           \* registers of the two 8259 controllers and the keyboard port
    io,           \* port accesses and sink output of the latest driver call
    pic_op,       \* the latest driver call or handler run: name, argument, result
    masks,        \* PIC.masks of the master and of the slave (Option<u8>)
    pc,           \* where kernel_main stands: [at, k]
    tables,       \* paging structures the heap pages still lack
    cpu,          \* CPU state: interrupt flag, loaded tables and segments
    idt,          \* the InterruptDescriptorTable: handler bound to each vector
    ctx,          \* the interrupt or exception handler running, if any
    pics_lock,    \* holder of the PICS lock
    heap_lock,    \* holder of the ALLOCATOR lock
    acall,        \* GlobalAlloc call the kernel code is in, if any
    sink          \* kind of the line printed last

frameVars == <<memory_map, next, returned>>
heapVars == <<initialized, heap_address, heap_size, heads, mem, live, violations, last, prev>>
selVars == <<sel_layout, sel_result>>
picVars == <<hw, io, pic_op, masks>>
kernVars == <<pc, tables, cpu, idt, ctx, pics_lock, heap_lock, acall, sink>>

vars == <<memory_map, next, returned, initialized, heap_address, heap_size, heads,
          mem, live, violations, last, prev, sel_layout, sel_result, hw, io, pic_op, masks,
          pc, tables, cpu, idt, ctx, pics_lock, heap_lock, acall, sink>>

\* Option::None / null pointer
NONE == -1

Max(a, b) == IF a >= b THEN a ELSE b

\* ptr::null_mut(); also the in-memory form of Option<&mut MemoryNode>::None
NULL == 0

\* BLOCK_SIZES, indexed from 1 here and from 0 in the code
BLOCK_SIZES == <<8, 16, 32, 64, 128, 256, 512, 1024, 2048, 4096>>

NumClasses == Len(BLOCK_SIZES)
Classes == 0..(NumClasses - 1)
BlockSize(index) == BLOCK_SIZES[index + 1]

\* no heap operation yet
NoOp == [op |-> "none", size |-> 0, align |-> 0, ptr |-> NULL, ret |-> NULL,
         diag |-> "", matched |-> TRUE]

\* FixedSizeAllocator::new: every head is None, nothing written to the heap
HeapNew ==
    /\ initialized = FALSE
    /\ heap_address = 0
    /\ heap_size = 0
    /\ heads = [i \in Classes |-> NULL]
    /\ mem = [a \in {} |-> NULL]
    /\ live = [a \in {} |-> NoOp]
    /\ violations = 0
    /\ last = NoOp
    /\ prev = NoOp

\* block_size_for not called
UNSET == -2

SelIdle ==
    /\ sel_layout = [size |-> 0, align |-> 1]
    /\ sel_result = UNSET

\* no driver call yet
NoPicOp == [name |-> "none", irq |-> 0, spurious |-> FALSE, enable |-> FALSE,
            offsets |-> <<0, 0>>]

\* PIC::new: masks: None
NoMasks == [master |-> NONE, slave |-> NONE]

\* controllers as the firmware leaves them: nothing in service, command port
\* reads give the IRR, no line masked, lines 0-7 at vectors 8-15 and lines 8-15
\* at vectors 112-119, no initialization sequence in progress
HwReset == [isr_m |-> 0, isr_s |-> 0, irr_m |-> 0, irr_s |-> 0,
            rsel_m |-> "irr", rsel_s |-> "irr", kbd |-> 0,
            imr_m |-> 0, imr_s |-> 0, off_m |-> 8, off_s |-> 112,
            seq_m |-> << >>, seq_s |-> << >>]

PicIdle ==
    /\ hw = HwReset
    /\ io = << >>
    /\ pic_op = NoPicOp
    /\ masks = NoMasks

\* vectors of the interrupt descriptor table
Vectors == 0..255

\* InterruptDescriptorTable::new: every entry missing
EmptyIdt == [v \in Vectors |-> "missing"]

\* no handler running
NoCtx == [name |-> "none", vector |-> 0, pos |-> "none", ret_if |-> FALSE]

\* CPU as the boot loader hands it over: interrupts disabled, the kernel's
\* tables not loaded
CpuBoot == [IF |-> FALSE, gdt |-> FALSE, cs |-> FALSE, tss |-> FALSE, idtr |-> FALSE]

\* kernel code is in no GlobalAlloc call
NoCall == [op |-> "none", layout |-> [size |-> 0, align |-> 1], ptr |-> NULL]

\* kernel_main not started
KernIdle ==
    /\ pc = [at |-> "off", k |-> 0]
    /\ tables = 0
    /\ cpu = CpuBoot
    /\ idt = EmptyIdt
    /\ ctx = NoCtx
    /\ pics_lock = "free"
    /\ heap_lock = "free"
    /\ acall = NoCall
    /\ sink = ""

(***************************************************************************)
(* Frame allocator                                          memory/mod.rs  *)
(***************************************************************************)

\* bounds of the explored memory maps
MaxRegions == 3
MaxFrame == 3

\* Size4KiB
PAGE_SIZE == 4096

RegionTypes == {"Usable", "Reserved"}

\* bootloader MemoryRegion: a FrameRange of frame numbers and a type
Regions ==
    {r \in [start : 0..MaxFrame, end : 0..MaxFrame, region_type : RegionTypes] :
        r.start <= r.end}

\* a memory map classifies physical memory: no two regions share a frame
Disjoint(r1, r2) == r1.end <= r2.start \/ r2.end <= r1.start

MemoryMaps ==
    UNION {{m \in [1..n -> Regions] :
              \A i, j \in 1..n : i < j => Disjoint(m[i], m[j])} : n \in 0..MaxRegions}

\* FrameRange::start_addr / end_addr
start_addr(r) == r.start * PAGE_SIZE
end_addr(r) == r.end * PAGE_SIZE

\* PhysFrame::containing_address: the frame's start address
containing_address(addr) == addr - (addr % PAGE_SIZE)

\* (start..end).step_by(4096), each address mapped to its frame
RangeFrames(lo, hi) ==
    IF hi <= lo THEN << >>
    ELSE [i \in 1..(((hi - lo - 1) \div PAGE_SIZE) + 1) |->
            containing_address(lo + (i - 1) * PAGE_SIZE)]

RECURSIVE FlatMapFrom(_, _)
FlatMapFrom(map, i) ==
    IF i > Len(map) THEN << >>
    ELSE (IF map[i].region_type = "Usable"
            THEN RangeFrames(start_addr(map[i]), end_addr(map[i]))
            ELSE << >>) \o FlatMapFrom(map, i + 1)

\* mutant: regions are flattened from the last to the first
usable_frames_reversed(map) ==
    LET RECURSIVE Rev(_)
        Rev(i) == IF i < 1 THEN << >>
                  ELSE (IF map[i].region_type = "Usable"
                          THEN RangeFrames(start_addr(map[i]), end_addr(map[i]))
                          ELSE << >>) \o Rev(i - 1)
    IN Rev(Len(map))

\* InternalFrameAllocator::usable_frames
usable_frames(map) == FlatMapFrom(map, 1)

\* Iterator::nth, zero based
Nth(s, n) == IF n + 1 <= Len(s) THEN s[n + 1] ELSE NONE

\* calls explored per memory map: every frame and two exhausted calls
MaxCalls == MaxFrame + 2

\* mutant: the cursor is not advanced
allocate_frame_noadvance ==
    /\ Len(returned) < MaxCalls
    /\ returned' = Append(returned, Nth(usable_frames(memory_map), next))
    /\ next' = next
    /\ UNCHANGED memory_map
    /\ UNCHANGED <<heapVars, selVars, picVars, kernVars>>

\* InternalFrameAllocator::allocate_frame
allocate_frame ==
    /\ Len(returned) < MaxCalls
    /\ returned' = Append(returned, Nth(usable_frames(memory_map), next))
    /\ next' = next + 1
    /\ UNCHANGED memory_map
    /\ UNCHANGED <<heapVars, selVars, picVars, kernVars>>

\* InternalFrameAllocator::new over a memory map handed over by the boot loader
InitFrame ==
    /\ memory_map \in MemoryMaps
    /\ next = 0
    /\ returned = << >>
    /\ HeapNew
    /\ SelIdle
    /\ PicIdle
    /\ KernIdle

NextFrame == allocate_frame

SpecFrame == InitFrame /\ [][NextFrame]_vars

----
\* frames handed out so far
Handed == {returned[i] : i \in {k \in DOMAIN returned : returned[k] # NONE}}

InRegion(f, r) == start_addr(r) <= f /\ f < end_addr(r)

\* every 4 KiB-aligned frame of the usable regions
UsableFrameSet ==
    {f \in {n * PAGE_SIZE : n \in 0..MaxFrame} :
        \E i \in DOMAIN memory_map :
            memory_map[i].region_type = "Usable" /\ InRegion(f, memory_map[i])}

Exhausted == \E i \in DOMAIN returned : returned[i] = NONE

Ascending ==
    \A i, j \in DOMAIN returned :
        (i < j /\ returned[i] # NONE /\ returned[j] # NONE) => returned[i] <= returned[j]

\* C2 as stated: for any memory map, whatever the order of its regions, the
\* returned frames are in ascending address order.
C2_AscendingAnyOrder == Ascending

\* the usable regions are listed in ascending address order
UsableListedAscending ==
    \A i, j \in DOMAIN memory_map :
        (/\ i < j
         /\ memory_map[i].region_type = "Usable"
         /\ memory_map[j].region_type = "Usable"
         /\ memory_map[i].start < memory_map[i].end
         /\ memory_map[j].start < memory_map[j].end)
        => memory_map[i].end <= memory_map[j].start

\* C2 amended: when the memory map lists its usable regions in ascending
\* address order, the returned frames are in ascending address order.
C2_AscendingWhenListedAscending == UsableListedAscending => Ascending

C2_Witness ==
    /\ UsableListedAscending
    /\ Cardinality(Handed) >= 3
    /\ \E i, j \in DOMAIN memory_map :
          /\ i < j
          /\ memory_map[i].region_type = "Usable"
          /\ memory_map[j].region_type = "Usable"
          /\ memory_map[i].start < memory_map[i].end
          /\ memory_map[j].start < memory_map[j].end

(***************************************************************************)
(* Fixed-size-block heap allocator                memory/fixed_size_heap.rs *)
(***************************************************************************)

\* HEAP_SIZE: 120 KiB
HEAP_SIZE == 122880

\* BLOCK_DISTRIBUTIONS[i] = 10.0 / 100.0 as f32 = 13421773 * 2^-27, and
\* 13421773 = F32_TENTH_HI * 4096 + F32_TENTH_LO
F32_TENTH_HI == 3276
F32_TENTH_LO == 3277

RECURSIVE BitLen(_)
BitLen(n) == IF n = 0 THEN 0 ELSE 1 + BitLen(n \div 2)

\* (BLOCK_DISTRIBUTIONS[index] * heap_size as f32) as usize, for
\* heap_size <= 2^17 (heap_size as f32 is then exact): the exact product
\* N * 2^-27 with N = H * 4096 + L is rounded to a 24-bit mantissa, ties to
\* even, and the cast truncates toward zero.
memory_share(index, size) ==
    LET H == size * F32_TENTH_HI + ((size * F32_TENTH_LO) \div 4096)
        L == (size * F32_TENTH_LO) % 4096
        bl == IF H > 0 THEN BitLen(H) + 12 ELSE BitLen(L)
        s == Max(bl - 24, 0)
        q == IF s = 0 THEN H * 4096 + L
             ELSE IF s <= 12 THEN H * (2 ^ (12 - s)) + (L \div (2 ^ s))
             ELSE H \div (2 ^ (s - 12))
        r == IF s = 0 THEN 0
             ELSE IF s <= 12 THEN L % (2 ^ s)
             ELSE (H % (2 ^ (s - 12))) * 4096 + L
        half == IF s = 0 THEN 1 ELSE 2 ^ (s - 1)
        M == q + (IF r > half \/ (r = half /\ q % 2 = 1) THEN 1 ELSE 0)
    IN  M \div (2 ^ (27 - s))

\* node_ptr.write(node): the node at addr now holds nxt
Write(m, addr, nxt) == (addr :> nxt) @@ m

\* BLOCK_SIZES.iter().position(|&size| size.eq(&block_size)).unwrap()
RECURSIVE PositionEq(_, _)
PositionEq(block_size, i) ==
    IF BlockSize(i) = block_size THEN i ELSE PositionEq(block_size, i + 1)

\* one iteration of the loop of create_blocks: the node is written at addr and
\* becomes the head when previous_block still is None (first iteration), else
\* the node of the iteration before (the one previous_block refers to) links it
CreateIter(st, block_size, start_address, i) ==
    LET addr == start_address + i * block_size
        previous == IF i = 0 THEN NULL ELSE start_address + (i - 1) * block_size
        m1 == Write(st.mem, addr, NULL)
    IN  IF previous = NULL
        THEN [heads |-> [st.heads EXCEPT ![PositionEq(block_size, 0)] = addr], mem |-> m1]
        ELSE [heads |-> st.heads, mem |-> Write(m1, previous, addr)]

\* iterations lo .. hi-1 of the loop, in order: the first half of them, then
\* the second half on the state the first half left (evaluated before going on)
RECURSIVE CreateRange(_, _, _, _, _)
CreateRange(st, block_size, start_address, lo, hi) ==
    IF hi <= lo THEN st
    ELSE IF hi = lo + 1 THEN CreateIter(st, block_size, start_address, lo)
    ELSE LET mid == (lo + hi) \div 2
             half == CreateRange(st, block_size, start_address, lo, mid)
         IN  IF DOMAIN half.mem # {}
             THEN CreateRange(half, block_size, start_address, mid, hi)
             ELSE half

\* mutant: one block too many is carved for each class
create_blocks_onemore(hs, m, block_size, count, start_address) ==
    CreateRange([heads |-> hs, mem |-> m], block_size, start_address, 0, count + 1)

\* FixedSizeAllocator::create_blocks: for i in 0..count
create_blocks(hs, m, block_size, count, start_address) ==
    CreateRange([heads |-> hs, mem |-> m], block_size, start_address, 0, count)

\* the loop of init from class index on (the blocks of a class are created
\* before the loop goes on to the next class)
RECURSIVE InitLoop(_, _, _, _, _)
InitLoop(hs, m, size, index, current_memory_offset) ==
    IF index >= NumClasses THEN [heads |-> hs, mem |-> m]
    ELSE LET block_size == BlockSize(index)
             share == memory_share(index, size)
             block_count == share \div block_size
             done == create_blocks(hs, m, block_size, block_count, current_memory_offset)
         IN  IF DOMAIN done.mem # {} \/ block_count = 0
             THEN InitLoop(done.heads, done.mem, size, index + 1, current_memory_offset + share)
             ELSE done

\* FixedSizeAllocator::init, called once (init_heap)
init(address, size) ==
    /\ ~initialized
    /\ LET done == InitLoop(heads, mem, size, 0, address)
       IN  /\ heads' = done.heads
           /\ mem' = done.mem
    /\ initialized' = TRUE
    /\ heap_address' = address
    /\ heap_size' = size
    /\ prev' = last
    /\ last' = [NoOp EXCEPT !.op = "init", !.ptr = address, !.size = size]
    /\ UNCHANGED <<live, violations>>
    /\ UNCHANGED <<frameVars, selVars, picVars>>

\* mutant: the first class whose size is strictly greater is selected
PositionGE_strict(required_block_size, i) ==
    LET RECURSIVE Scan(_)
        Scan(k) == IF k >= NumClasses THEN NONE
                   ELSE IF BlockSize(k) > required_block_size THEN k
                   ELSE Scan(k + 1)
    IN Scan(i)

\* BLOCK_SIZES.iter().position(|&s| s >= required_block_size), scanning from i
RECURSIVE PositionGE(_, _)
PositionGE(required_block_size, i) ==
    IF i >= NumClasses THEN NONE
    ELSE IF BlockSize(i) >= required_block_size THEN i
    ELSE PositionGE(required_block_size, i + 1)

\* FixedSizeAllocator::block_size_for
block_size_for(layout) == PositionGE(Max(layout.size, layout.align), 0)

\* bounds of the explored alloc/dealloc sequences
MaxLive == 2
MaxViolations == 1

\* mutant: an empty class falls back to the next larger class with a free block
alloc_fallback(layout) ==
    LET index == block_size_for(layout)
        larger == IF index = NONE THEN {} ELSE {k \in Classes : k >= index /\ heads[k] # NULL}
        pick == IF larger = {} THEN NONE ELSE CHOOSE k \in larger : \A j \in larger : k <= j
    IN  /\ pick # NONE
        /\ Cardinality(DOMAIN live) < MaxLive
        /\ heads' = [heads EXCEPT ![pick] = mem[heads[pick]]]
        /\ mem' = Write(mem, heads[pick], NULL)
        /\ live' = [a \in (DOMAIN live) \cup {heads[pick]} |->
                      IF a = heads[pick] THEN [NoOp EXCEPT !.op = "alloc", !.size = layout.size,
                                                  !.align = layout.align, !.ret = heads[pick]]
                      ELSE live[a]]
        /\ prev' = last
        /\ last' = [NoOp EXCEPT !.op = "alloc", !.size = layout.size,
                                !.align = layout.align, !.ret = heads[pick]]
        /\ UNCHANGED <<initialized, heap_address, heap_size, violations>>
        /\ UNCHANGED <<frameVars, selVars, picVars>>

\* mutant: the head is returned but stays at the head of its list
alloc_keeps_head(layout) ==
    LET index == block_size_for(layout)
        head == IF index = NONE THEN NULL ELSE heads[index]
        rec == [NoOp EXCEPT !.op = "alloc", !.size = layout.size, !.align = layout.align]
    IN  /\ head # NULL => Cardinality(DOMAIN live) < MaxLive
        /\ IF index # NONE /\ head # NULL
           THEN /\ live' = [a \in (DOMAIN live) \cup {head} |->
                              IF a = head THEN [rec EXCEPT !.ret = head] ELSE live[a]]
                /\ last' = [rec EXCEPT !.ret = head]
                /\ UNCHANGED <<heads, mem>>
           ELSE /\ heads' = IF index # NONE THEN [heads EXCEPT ![index] = NULL] ELSE heads
                /\ last' = [rec EXCEPT !.ret = NULL,
                                       !.diag = IF index # NONE THEN "No block available for size"
                                                ELSE "Failed to allocate heap for layout"]
                /\ UNCHANGED <<mem, live>>
        /\ prev' = last
        /\ UNCHANGED <<initialized, heap_address, heap_size, violations>>
        /\ UNCHANGED <<frameVars, selVars, picVars>>

\* GlobalAlloc::alloc, run under the allocator lock
alloc(layout) ==
    LET index == block_size_for(layout)
        head == IF index = NONE THEN NULL ELSE heads[index]
        rec == [NoOp EXCEPT !.op = "alloc", !.size = layout.size, !.align = layout.align]
    IN  /\ head # NULL => Cardinality(DOMAIN live) < MaxLive
        /\ IF index # NONE /\ head # NULL
           THEN \* node.next.take(); heads[index] = next_node; return node
                /\ heads' = [heads EXCEPT ![index] = mem[head]]
                /\ mem' = Write(mem, head, NULL)
                /\ live' = [a \in (DOMAIN live) \cup {head} |->
                              IF a = head THEN [rec EXCEPT !.ret = head] ELSE live[a]]
                /\ last' = [rec EXCEPT !.ret = head]
           ELSE \* head.take() of an empty head, a diagnostic, and a null return
                /\ heads' = IF index # NONE THEN [heads EXCEPT ![index] = NULL] ELSE heads
                /\ last' = [rec EXCEPT !.ret = NULL,
                                       !.diag = IF index # NONE THEN "No block available for size"
                                                ELSE "Failed to allocate heap for layout"]
                /\ UNCHANGED <<mem, live>>
        /\ prev' = last
        /\ UNCHANGED <<initialized, heap_address, heap_size, violations>>
        /\ UNCHANGED <<frameVars, selVars, picVars>>

\* mutant: the released block is appended after the last node of the list
dealloc_tail(ptr, layout) ==
    LET index == block_size_for(layout)
        RECURSIVE LastNode(_)
        LastNode(a) == IF mem[a] = NULL THEN a ELSE LastNode(mem[a])
    IN  /\ ptr \in DOMAIN live
        /\ index # NONE
        /\ layout = [size |-> live[ptr].size, align |-> live[ptr].align]
        /\ IF heads[index] = NULL
           THEN /\ heads' = [heads EXCEPT ![index] = ptr]
                /\ mem' = Write(mem, ptr, NULL)
           ELSE /\ heads' = heads
                /\ mem' = Write(Write(mem, ptr, NULL), LastNode(heads[index]), ptr)
        /\ live' = [a \in (DOMAIN live) \ {ptr} |-> live[a]]
        /\ prev' = last
        /\ last' = [NoOp EXCEPT !.op = "dealloc", !.size = layout.size,
                                !.align = layout.align, !.ptr = ptr]
        /\ UNCHANGED <<initialized, heap_address, heap_size, violations>>
        /\ UNCHANGED <<frameVars, selVars, picVars>>

\* mutant: a release whose layout has no class is dropped without a diagnostic
dealloc_silent(ptr, layout) ==
    LET index == block_size_for(layout)
        matched == layout = [size |-> live[ptr].size, align |-> live[ptr].align]
        rec == [NoOp EXCEPT !.op = "dealloc", !.size = layout.size, !.align = layout.align,
                            !.ptr = ptr, !.matched = matched]
    IN  /\ ptr \in DOMAIN live
        /\ matched \/ violations < MaxViolations
        /\ IF index # NONE
           THEN /\ mem' = Write(mem, ptr, heads[index])
                /\ heads' = [heads EXCEPT ![index] = ptr]
           ELSE UNCHANGED <<heads, mem>>
        /\ last' = rec
        /\ live' = [a \in (DOMAIN live) \ {ptr} |-> live[a]]
        /\ violations' = IF matched THEN violations ELSE violations + 1
        /\ prev' = last
        /\ UNCHANGED <<initialized, heap_address, heap_size>>
        /\ UNCHANGED <<frameVars, selVars, picVars>>

\* mutant: the released block is pushed onto the list of the next larger class
dealloc_wrongclass(ptr, layout) ==
    LET selected == block_size_for(layout)
        index == IF selected # NONE /\ selected + 1 < NumClasses THEN selected + 1
                 ELSE selected
        matched == layout = [size |-> live[ptr].size, align |-> live[ptr].align]
        rec == [NoOp EXCEPT !.op = "dealloc", !.size = layout.size, !.align = layout.align,
                            !.ptr = ptr, !.matched = matched]
    IN  /\ ptr \in DOMAIN live
        /\ matched \/ violations < MaxViolations
        /\ IF index # NONE
           THEN /\ mem' = Write(mem, ptr, heads[index])
                /\ heads' = [heads EXCEPT ![index] = ptr]
                /\ last' = rec
           ELSE /\ last' = [rec EXCEPT !.diag = "Attempt to deallocate a block that doesn't exist"]
                /\ UNCHANGED <<heads, mem>>
        /\ live' = [a \in (DOMAIN live) \ {ptr} |-> live[a]]
        /\ violations' = IF matched THEN violations ELSE violations + 1
        /\ prev' = last
        /\ UNCHANGED <<initialized, heap_address, heap_size>>
        /\ UNCHANGED <<frameVars, selVars, picVars>>

\* GlobalAlloc::dealloc, run under the allocator lock, on a block that is in use
dealloc(ptr, layout) ==
    LET index == block_size_for(layout)
        matched == layout = [size |-> live[ptr].size, align |-> live[ptr].align]
        rec == [NoOp EXCEPT !.op = "dealloc", !.size = layout.size, !.align = layout.align,
                            !.ptr = ptr, !.matched = matched]
    IN  /\ ptr \in DOMAIN live
        /\ matched \/ violations < MaxViolations
        /\ IF index # NONE
           THEN \* new_node.next = head.take(); write it at ptr; heads[index] = ptr
                /\ mem' = Write(mem, ptr, heads[index])
                /\ heads' = [heads EXCEPT ![index] = ptr]
                /\ last' = rec
           ELSE /\ last' = [rec EXCEPT !.diag = "Attempt to deallocate a block that doesn't exist"]
                /\ UNCHANGED <<heads, mem>>
        /\ live' = [a \in (DOMAIN live) \ {ptr} |-> live[a]]
        /\ violations' = IF matched THEN violations ELSE violations + 1
        /\ prev' = last
        /\ UNCHANGED <<initialized, heap_address, heap_size>>
        /\ UNCHANGED <<frameVars, selVars, picVars>>

\* heap regions handed to init
HeapBases == {8, 4096}
MaxHeapSize == 700
InitSizes == (0..MaxHeapSize) \cup {40960, 41040, HEAP_SIZE, HEAP_SIZE + 80}
HeapSizes == {330}
HeapStarts == {4096}

\* request shapes of the explored alloc/dealloc sequences
HeapLayouts ==
    {[size |-> 1, align |-> 1], [size |-> 1, align |-> 16],
     [size |-> 9, align |-> 1], [size |-> 4097, align |-> 1]}

InitAny ==
    /\ \E address \in HeapBases, size \in InitSizes : init(address, size)
    /\ UNCHANGED kernVars
InitHeap ==
    /\ \E address \in HeapStarts, size \in HeapSizes : init(address, size)
    /\ UNCHANGED kernVars
Alloc ==
    /\ \E layout \in HeapLayouts : alloc(layout)
    /\ UNCHANGED kernVars
Dealloc ==
    /\ \E ptr \in DOMAIN live, layout \in HeapLayouts : dealloc(ptr, layout)
    /\ UNCHANGED kernVars

StartIdle ==
    /\ memory_map = << >>
    /\ next = 0
    /\ returned = << >>
    /\ HeapNew
    /\ SelIdle
    /\ PicIdle
    /\ KernIdle

\* init alone, over many heap regions
SpecInit == StartIdle /\ [][InitAny]_vars

\* init followed by any sequence of alloc and dealloc calls
NextHeap == InitHeap \/ Alloc \/ Dealloc
SpecHeap == StartIdle /\ [][NextHeap]_vars

\* request shapes handed to block_size_for: every size up to MaxLayoutSize
\* with every power-of-two alignment up to 2^MaxAlignLog2
MaxLayoutSize == 4100
MaxAlignLog2 == 13
SelLayouts == [size : 0..MaxLayoutSize, align : {2 ^ k : k \in 0..MaxAlignLog2}]

InitSel ==
    /\ memory_map = << >>
    /\ next = 0
    /\ returned = << >>
    /\ HeapNew
    /\ sel_layout \in SelLayouts
    /\ sel_result = UNSET
    /\ PicIdle
    /\ KernIdle

\* a call of block_size_for on the layout
Select ==
    /\ sel_result = UNSET
    /\ sel_result' = block_size_for(sel_layout)
    /\ UNCHANGED <<sel_layout, frameVars, heapVars, picVars, kernVars>>

SpecSel == InitSel /\ [][Select]_vars

----
\* the free list of a class, walked from its head through the nodes in memory:
\* the first n nodes reached from a
RECURSIVE Walk(_, _)
Walk(a, n) ==
    IF a = NULL \/ n = 0 THEN << >>
    ELSE IF n = 1 THEN <<a>>
    ELSE LET h == n \div 2
             first == Walk(a, h)
         IN  IF Len(first) < h THEN first ELSE first \o Walk(mem[first[h]], n - h)

FreeList(index) == Walk(heads[index], Cardinality(DOMAIN mem) + 1)

\* the free lists of all classes, class i at position i + 1
FreeLists ==
    <<FreeList(0), FreeList(1), FreeList(2), FreeList(3), FreeList(4),
      FreeList(5), FreeList(6), FreeList(7), FreeList(8), FreeList(9)>>

SeqSet(s) == {s[k] : k \in DOMAIN s}

\* the class's byte share of the heap: 10% of the heap size, in whole bytes
ShareOf(index) == (heap_size * 10) \div 100

\* C3: after init(base, size) the free list of every size class i links
\* floor(share_i / size_i) nodes, and no node address is linked in the lists
\* of two different classes.
C3_InitBlockCounts ==
    last.op = "init" =>
        LET lists == FreeLists
        IN  /\ \A i \in Classes : Len(lists[i + 1]) = ShareOf(i) \div BlockSize(i)
            /\ \A i, j \in Classes :
                  i < j => SeqSet(lists[i + 1]) \cap SeqSet(lists[j + 1]) = {}

C3_Witness ==
    /\ last.op = "init"
    /\ heap_size = HEAP_SIZE
    /\ Len(FreeList(0)) = 1536
    /\ Len(FreeList(9)) = 3
    /\ heads[8] # NULL
    /\ heads[9] # heads[8]

LayoutOf(rec) == [size |-> rec.size, align |-> rec.align]

\* C4: when a block is released with the size and alignment it was allocated
\* with and the next operation allocates from the same size class, that
\* allocation returns the address just released.
C4_RoundTrip ==
    (/\ prev.op = "dealloc"
     /\ prev.matched
     /\ last.op = "alloc"
     /\ block_size_for(LayoutOf(prev)) # NONE
     /\ block_size_for(LayoutOf(last)) = block_size_for(LayoutOf(prev)))
    => last.ret = prev.ptr

C4_Witness ==
    /\ prev.op = "dealloc"
    /\ prev.matched
    /\ last.op = "alloc"
    /\ LayoutOf(last) # LayoutOf(prev)
    /\ block_size_for(LayoutOf(last)) = block_size_for(LayoutOf(prev))
    /\ last.ret = prev.ptr
    /\ last.ret # NULL
    /\ heads[block_size_for(LayoutOf(last))] # NULL
    /\ Cardinality(DOMAIN live) = 2

\* C5: block_size_for(size n, alignment a) returns the smallest class whose
\* block size is >= max(n, a), and no class exactly when max(n, a) > 4096; a
\* 1-byte 8-aligned request selects the 8-byte class, a 4097-byte request none.
C5_ClassSelection ==
    sel_result # UNSET =>
        LET n == sel_layout.size
            a == sel_layout.align
            m == IF n >= a THEN n ELSE a
        IN  /\ sel_result = NONE <=> m > 4096
            /\ sel_result # NONE =>
                  /\ sel_result \in Classes
                  /\ BLOCK_SIZES[sel_result + 1] >= m
                  /\ \A k \in Classes : BLOCK_SIZES[k + 1] >= m => sel_result <= k
            /\ (n = 1 /\ a = 8) => sel_result = 0
            /\ n = 4097 => sel_result = NONE

C5_Witness ==
    /\ sel_layout = [size |-> 1, align |-> 8]
    /\ sel_result = 0

\* C6: an allocate whose selected class has an empty free list, or for which
\* no class fits, returns null whatever the other classes hold, and every
\* allocate that returns null leaves the heads and the nodes unchanged.
C6_ExhaustionNoFallback ==
    [][last'.op = "alloc" =>
         LET index == block_size_for(LayoutOf(last'))
         IN  /\ (index = NONE \/ heads[index] = NULL) =>
                   (last'.ret = NULL /\ heads' = heads /\ mem' = mem /\ live' = live)
             /\ last'.ret = NULL => (heads' = heads /\ mem' = mem /\ live' = live)]_vars

C6_Witness ==
    /\ last.op = "alloc"
    /\ last.ret = NULL
    /\ block_size_for(LayoutOf(last)) \in 1..8
    /\ \E k \in Classes : k < block_size_for(LayoutOf(last)) /\ heads[k] # NULL
    /\ \E k \in Classes : k > block_size_for(LayoutOf(last)) /\ heads[k] # NULL

\* C19: a deallocate whose size and alignment select no class prints a
\* diagnostic line, writes no free-list node and leaves every head unchanged.
C19_DeallocNoClassDiagnosed ==
    [][(last'.op = "dealloc" /\ block_size_for(LayoutOf(last')) = NONE) =>
          /\ last'.diag # ""
          /\ heads' = heads
          /\ mem' = mem]_vars

C19_Witness ==
    /\ last.op = "dealloc"
    /\ Max(last.size, last.align) > 4096
    /\ last.diag = "Attempt to deallocate a block that doesn't exist"
    /\ initialized
    /\ \E i \in Classes : heads[i] # NULL

\* the blocks init carves for a class: share div size blocks of the class's
\* size from the start of the class's share of the heap
Carved(index) ==
    {heap_address + index * ShareOf(index) + k * BLOCK_SIZES[index + 1] :
        k \in 0..((ShareOf(index) \div BLOCK_SIZES[index + 1]) - 1)}

\* C20: after init and alloc/dealloc calls whose deallocs all use the layout of
\* the matching alloc, every node linked in a class's free list is a block init
\* carved for that class, and an alloc or dealloc leaves the free lists of all
\* classes other than the selected one unchanged.
C20_ClassesStaySeparate ==
    /\ [](( initialized /\ violations = 0) =>
            LET lists == FreeLists
            IN  \A i \in Classes : SeqSet(lists[i + 1]) \subseteq Carved(i))
    /\ [][(last'.op \in {"alloc", "dealloc"} /\ violations' = 0) =>
            \A j \in Classes :
                j # block_size_for(LayoutOf(last')) => FreeList(j)' = FreeList(j)]_vars

C20_Witness ==
    /\ initialized
    /\ violations = 0
    /\ prev.op = "dealloc"
    /\ last.op = "dealloc"
    /\ block_size_for(LayoutOf(prev)) # NONE
    /\ block_size_for(LayoutOf(last)) # NONE
    /\ block_size_for(LayoutOf(prev)) # block_size_for(LayoutOf(last))
    /\ heads[block_size_for(LayoutOf(prev))] = prev.ptr
    /\ heads[block_size_for(LayoutOf(last))] = last.ptr

\* the last node of a class's free list (NULL for an empty list)
LastOf(list) == IF list = << >> THEN NULL ELSE list[Len(list)]

\* some class's share is not a whole number of its blocks
Mismatched(index) == ShareOf(index) % BlockSize(index) # 0

\* C21 (as stated): after init with a heap size that leaves some class a share
\* that is not a multiple of its block size, the last block carved for that
\* class reaches into the first block carved for the next class.
C21_RemainderOverlaps ==
    last.op = "init" =>
        LET lists == FreeLists
        IN  \A i \in Classes :
               (/\ i + 1 \in Classes
                /\ Mismatched(i)
                /\ lists[i + 1] # << >>
                /\ lists[i + 2] # << >>)
               => LastOf(lists[i + 1]) + BlockSize(i) > heads[i + 1]

\* C21 (amended): after init the blocks of a class are laid out back to back
\* from the start of the class's share, the bytes of the share that do not
\* fill a whole block stay unused behind the last block, and so the last
\* block of a class ends at or before the start of the share of the next
\* class and before the first block of every later class.
C21_RemainderUnused ==
    last.op = "init" =>
        LET lists == FreeLists
        IN  /\ \A i \in Classes :
                  LET list == lists[i + 1]
                  IN  /\ list # << >> => list[1] = heap_address + i * ShareOf(i)
                      /\ \A k \in 1..(Len(list) - 1) :
                            list[k + 1] = list[k] + BlockSize(i)
                      /\ list # << >> =>
                            LastOf(list) + BlockSize(i) + (ShareOf(i) % BlockSize(i))
                                = heap_address + (i + 1) * ShareOf(i)
            /\ \A i, j \in Classes :
                  (i < j /\ lists[i + 1] # << >> /\ lists[j + 1] # << >>)
                  => LastOf(lists[i + 1]) + BlockSize(i) <= heads[j]

C21_Witness ==
    /\ last.op = "init"
    /\ heap_size = 330
    /\ Mismatched(0)
    /\ Len(FreeList(0)) = 4
    /\ heads[1] = heap_address + 33
    /\ LastOf(FreeList(0)) + BlockSize(0) < heads[1]

\* the blocks of a class that are in use: handed out by alloc under a layout
\* that selects the class and not released since
LiveOf(index) == {a \in DOMAIN live : block_size_for(LayoutOf(live[a])) = index}

\* C24: after init and alloc/dealloc calls whose deallocs all release a block
\* in use with the layout of its alloc, alloc never returns an address that is
\* in use, every free list is acyclic (no node is linked twice), and for each
\* class the free nodes plus the blocks in use number the blocks init carved.
C24_BlocksConserved ==
    /\ []((initialized /\ violations = 0) =>
            LET lists == FreeLists
            IN  \A i \in Classes :
                   /\ Cardinality(SeqSet(lists[i + 1])) = Len(lists[i + 1])
                   /\ Len(lists[i + 1]) <= Cardinality(DOMAIN mem)
                   /\ SeqSet(lists[i + 1]) \cap DOMAIN live = {}
                   /\ Len(lists[i + 1]) + Cardinality(LiveOf(i))
                         = ShareOf(i) \div BlockSize(i))
    /\ [][(last'.op = "alloc" /\ last'.ret # NULL /\ violations' = 0) =>
             last'.ret \notin DOMAIN live]_vars

C24_Witness ==
    /\ initialized
    /\ violations = 0
    /\ prev.op = "alloc"
    /\ last.op = "alloc"
    /\ prev.ret # NULL
    /\ last.ret # NULL
    /\ last.ret # prev.ret
    /\ block_size_for(LayoutOf(prev)) = block_size_for(LayoutOf(last))
    /\ DOMAIN live = {prev.ret, last.ret}
    /\ Len(FreeList(block_size_for(LayoutOf(last)))) =
          (ShareOf(0) \div BlockSize(block_size_for(LayoutOf(last)))) - 2

----
\* HEAP_START = 0x_4444_4444_0000 = HEAP_START_HI * 2^20 + HEAP_START_LO.  The
\* heap [HEAP_START, HEAP_START + HEAP_SIZE) lies inside one 2^20-aligned
\* window (HEAP_START_LO + HEAP_SIZE < 2^20), so every address the allocator
\* computes has the high part HEAP_START_HI and is kept as its low 20 bits.
HEAP_START_HI == 71582788

\* mutant: a heap base that is only 8-byte aligned
HEAP_START_LO_unaligned == 262144 + 8

HEAP_START_LO == 262144

\* the layouts requested from the built-in heap: for every class a request of
\* the full block size and a one-byte request aligned to the block size
BuiltinLayouts ==
    {[size |-> BlockSize(i), align |-> 1] : i \in Classes} \cup
    {[size |-> 1, align |-> BlockSize(i)] : i \in Classes}

\* ALLOCATOR.lock().init(HEAP_START, HEAP_SIZE)
InitBuiltin ==
    /\ init(HEAP_START_LO, HEAP_SIZE)
    /\ UNCHANGED kernVars

\* request sequences that stay within the class of the first request (alloc
\* and dealloc touch the list of the selected class only)
AllocOneClass ==
    /\ initialized
    /\ \E layout \in BuiltinLayouts :
          /\ last.op # "init" => block_size_for(layout) = block_size_for(LayoutOf(last))
          /\ alloc(layout)
    /\ UNCHANGED kernVars

\* dealloc of a block in use, with the layout of its alloc
DeallocMatching ==
    /\ \E ptr \in DOMAIN live : dealloc(ptr, LayoutOf(live[ptr]))
    /\ UNCHANGED kernVars

NextBuiltin == InitBuiltin \/ AllocOneClass \/ DeallocMatching
SpecBuiltin == StartIdle /\ [][NextBuiltin]_vars

\* address modulo b (b <= 4096) of the address whose low 20 bits are lo
AddrMod(lo, b) == (((HEAP_START_HI % b) * ((2 ^ 20) % b)) + lo) % b

\* the class whose share of the heap holds the address
ClassAt(a) == (a - heap_address) \div ShareOf(0)

\* C23: on the built-in heap (base 0x4444_4444_0000, 120 KiB, 10% shares)
\* every address a successful alloc returns is a multiple of the block size of
\* the selected class and of the requested alignment; and every node init
\* links in a free list, the blocks later allocs hand out, lies in the share
\* of its class at a multiple of the class's block size.
C23_BuiltinHeapAligned ==
    (initialized /\ violations = 0) =>
        /\ (last.op = "alloc" /\ last.ret # NULL) =>
              /\ AddrMod(last.ret, BlockSize(block_size_for(LayoutOf(last)))) = 0
              /\ AddrMod(last.ret, last.align) = 0
              /\ ClassAt(last.ret) = block_size_for(LayoutOf(last))
        /\ \A i \in Classes : heads[i] # NULL => ClassAt(heads[i]) = i
        /\ last.op = "init" =>
              \A a \in DOMAIN mem :
                 /\ ClassAt(a) \in Classes
                 /\ AddrMod(a, BlockSize(ClassAt(a))) = 0
                 /\ mem[a] # NULL => ClassAt(mem[a]) = ClassAt(a)

C23_Witness ==
    /\ heap_address = HEAP_START_LO
    /\ heap_size = HEAP_SIZE
    /\ Cardinality(DOMAIN mem) = 3069
    /\ violations = 0
    /\ prev.op = "dealloc"
    /\ last.op = "alloc"
    /\ last.align = 4096
    /\ last.ret = HEAP_START_LO + 9 * ShareOf(9) + 4096
    /\ Cardinality(DOMAIN live) = 2

(***************************************************************************)
(* Interrupt controller driver and handlers                                *)
(*                          interrupts/pic.rs, interrupts/interrupt_manager.rs *)
(***************************************************************************)

PIC_1_COMMAND == 32         \* 0x20
PIC_2_COMMAND == 160        \* 0xA0
PIC_1_DATA == PIC_1_COMMAND + 1
PIC_2_DATA == PIC_2_COMMAND + 1
INITIALIZE_COMMAND == 17    \* 0x11
END_OF_INTERRUPT_COMMAND == 32   \* 0x20
READ_ISR_COMMAND == 11      \* 0x0b
KEYBOARD_DATA_PORT == 96    \* 0x60
PIC_1_OFFSET == 32
PIC_2_OFFSET == PIC_1_OFFSET + 8

\* InterruptIndex::as_u8 and InterruptIndex::get_irq_line
InterruptIndex == [Timer |-> PIC_1_OFFSET, Keyboard |-> PIC_1_OFFSET + 1]
get_irq_line(index) == index - PIC_1_OFFSET

Bit(v, k) == (v \div (2 ^ k)) % 2

\* bitwise and of two 16-bit values
RECURSIVE BitAnd(_, _)
BitAnd(a, b) ==
    IF a = 0 \/ b = 0 THEN 0
    ELSE (a % 2) * (b % 2) + 2 * BitAnd(a \div 2, b \div 2)

\* non-specific end of interrupt: the highest-priority (lowest-numbered)
\* in-service bit of the controller is cleared
RECURSIVE LowestBit(_)
LowestBit(v) == IF v % 2 = 1 THEN 1 ELSE 2 * LowestBit(v \div 2)
ClearInService(isr) == IF isr = 0 THEN 0 ELSE isr - LowestBit(isr)

\* the initialization words a controller expects after ICW1: ICW2, then ICW3
\* unless ICW1 says single mode (bit 1), then ICW4 if ICW1 asks for it (bit 0)
IcwSequence(icw1) ==
    <<2>> \o (IF Bit(icw1, 1) = 0 THEN <<3>> ELSE << >>)
          \o (IF Bit(icw1, 0) = 1 THEN <<4>> ELSE << >>)

\* what a write to a port does to the devices behind it.  Command port: a byte
\* with bit 4 set is ICW1 (starts the initialization sequence, clears the mask
\* register, selects the IRR for reads), 0x0B selects the ISR for reads, 0x20
\* ends the highest-priority in-service interrupt.  Data port: the next
\* initialization word while a sequence is in progress (ICW2 sets the vector
\* offset from its top five bits), the mask register otherwise.
HwWrite(h, port, value) ==
    IF port = PIC_1_COMMAND THEN
        IF Bit(value, 4) = 1
        THEN [h EXCEPT !.seq_m = IcwSequence(value), !.imr_m = 0, !.rsel_m = "irr"]
        ELSE IF value = READ_ISR_COMMAND THEN [h EXCEPT !.rsel_m = "isr"]
        ELSE IF value = END_OF_INTERRUPT_COMMAND
             THEN [h EXCEPT !.isr_m = ClearInService(h.isr_m)]
        ELSE h
    ELSE IF port = PIC_2_COMMAND THEN
        IF Bit(value, 4) = 1
        THEN [h EXCEPT !.seq_s = IcwSequence(value), !.imr_s = 0, !.rsel_s = "irr"]
        ELSE IF value = READ_ISR_COMMAND THEN [h EXCEPT !.rsel_s = "isr"]
        ELSE IF value = END_OF_INTERRUPT_COMMAND
             THEN [h EXCEPT !.isr_s = ClearInService(h.isr_s)]
        ELSE h
    ELSE IF port = PIC_1_DATA THEN
        IF h.seq_m = << >> THEN [h EXCEPT !.imr_m = value]
        ELSE IF Head(h.seq_m) = 2
             THEN [h EXCEPT !.seq_m = Tail(h.seq_m), !.off_m = value - (value % 8)]
        ELSE [h EXCEPT !.seq_m = Tail(h.seq_m)]
    ELSE IF port = PIC_2_DATA THEN
        IF h.seq_s = << >> THEN [h EXCEPT !.imr_s = value]
        ELSE IF Head(h.seq_s) = 2
             THEN [h EXCEPT !.seq_s = Tail(h.seq_s), !.off_s = value - (value % 8)]
        ELSE [h EXCEPT !.seq_s = Tail(h.seq_s)]
    ELSE h

\* what a read of a port returns
HwRead(h, port) ==
    IF port = PIC_1_COMMAND THEN (IF h.rsel_m = "isr" THEN h.isr_m ELSE h.irr_m)
    ELSE IF port = PIC_2_COMMAND THEN (IF h.rsel_s = "isr" THEN h.isr_s ELSE h.irr_s)
    ELSE IF port = PIC_1_DATA THEN h.imr_m
    ELSE IF port = PIC_2_DATA THEN h.imr_s
    ELSE IF port = KEYBOARD_DATA_PORT THEN h.kbd
    ELSE 0

\* the CPU vector at which the controllers deliver a signal on a line
Vector(h, line) == IF line < 8 THEN h.off_m + line ELSE h.off_s + (line - 8)

\* Port::write and Port::read on the machine m = [hw, io, masks]; print! to the
\* sink
PortWrite(m, port, value) ==
    [m EXCEPT !.hw = HwWrite(m.hw, port, value),
              !.io = Append(m.io, [dir |-> "out", port |-> port, value |-> value])]
PortRead(m, port) ==
    [m EXCEPT !.io = Append(m.io, [dir |-> "in", port |-> port,
                                   value |-> HwRead(m.hw, port)])]
SinkPrint(m, value) ==
    [m EXCEPT !.io = Append(m.io, [dir |-> "print", port |-> 0, value |-> value])]

\* PIC::write_command on the master / the slave
master_write_command(m, command) == PortWrite(m, PIC_1_COMMAND, command)
slave_write_command(m, command) == PortWrite(m, PIC_2_COMMAND, command)

\* PIC::write_data on the master / the slave
PicDataPort(pic) == IF pic = "master" THEN PIC_1_DATA ELSE PIC_2_DATA
write_data(m, pic, value) == PortWrite(m, PicDataPort(pic), value)

\* PIC::save_masks: self.masks = Some(self.data_port.read())
save_masks(m, pic) ==
    LET r == PortRead(m, PicDataPort(pic))
    IN  [r EXCEPT !.masks[pic] = HwRead(m.hw, PicDataPort(pic))]

\* mutant: the saved mask is not written back
restore_masks_skipped(m, pic) == m

\* PIC::restore_masks: writes the saved mask, if there is one
restore_masks(m, pic) ==
    IF m.masks[pic] # NONE THEN write_data(m, pic, m.masks[pic]) ELSE m

GARBAGE_PORT == 128         \* 0x80

\* mutant: no delay write after a handshake byte
wait_skipped(m) == m

\* the wait closure of initialize: garbage_port.write(0u8)
wait(m) == PortWrite(m, GARBAGE_PORT, 0)

\* PICPair::initialize
initialize(m, pic_1_offset, pic_2_offset) ==
    LET s1 == save_masks(m, "master")
        s2 == save_masks(s1, "slave")
        a1 == wait(master_write_command(s2, INITIALIZE_COMMAND))
        a2 == wait(slave_write_command(a1, INITIALIZE_COMMAND))
        b1 == wait(write_data(a2, "master", pic_1_offset))
        b2 == wait(write_data(b1, "slave", pic_2_offset))
        c1 == wait(write_data(b2, "master", 4))
        c2 == wait(write_data(c1, "slave", 2))
        d1 == wait(write_data(c2, "master", 1))
        d2 == wait(write_data(d1, "slave", 1))
        r1 == restore_masks(d2, "master")
    IN  restore_masks(r1, "slave")

\* u8 | u8 and u8 & !u8
BitOr(a, b) == a + b - BitAnd(a, b)
BitAndNot(a, b) == a - BitAnd(a, b)

\* mutant: the bit is set whatever enable says
set_mask_always_set(m, irq, enable, overflow_checks) ==
    LET pic == IF irq < 8 THEN "master" ELSE "slave"
        line == IF irq < 8 THEN irq ELSE irq - 8
        rd == PortRead(m, PicDataPort(pic))
        current_masks == HwRead(m.hw, PicDataPort(pic))
        mask == 2 ^ (line % 8)
        value == BitOr(current_masks, mask)
    IN  IF line >= 8 /\ overflow_checks
        THEN [m |-> rd, panicked |-> TRUE]
        ELSE [m |-> write_data(rd, pic, value), panicked |-> FALSE]

\* PICPair::set_mask.  mask = 1 << line is a u8: for line >= 8 the shift
\* overflows, which panics in a build with overflow checks and shifts by
\* line % 8 in a build without them.
set_mask(m, irq, enable, overflow_checks) ==
    LET pic == IF irq < 8 THEN "master" ELSE "slave"
        line == IF irq < 8 THEN irq ELSE irq - 8
        rd == PortRead(m, PicDataPort(pic))
        current_masks == HwRead(m.hw, PicDataPort(pic))
        mask == 2 ^ (line % 8)
        value == IF enable THEN BitOr(current_masks, mask)
                 ELSE BitAndNot(current_masks, mask)
    IN  IF line >= 8 /\ overflow_checks
        THEN [m |-> rd, panicked |-> TRUE]
        ELSE [m |-> write_data(rd, pic, value), panicked |-> FALSE]

\* mutant: the in-service register is not selected before the reads
read_isr_noselect(m) ==
    LET m3 == PortRead(m, PIC_1_COMMAND)
        pic_1_irr == HwRead(m.hw, PIC_1_COMMAND)
        m4 == PortRead(m3, PIC_2_COMMAND)
        pic_2_irr == HwRead(m3.hw, PIC_2_COMMAND)
    IN  [m |-> m4, value |-> ((pic_2_irr * 256) % 65536) + pic_1_irr]

\* PICPair::read_isr: ((pic_2_irr as u16) << 8) | pic_1_irr as u16
read_isr(m) ==
    LET m1 == master_write_command(m, READ_ISR_COMMAND)
        m2 == slave_write_command(m1, READ_ISR_COMMAND)
        m3 == PortRead(m2, PIC_1_COMMAND)
        pic_1_irr == HwRead(m2.hw, PIC_1_COMMAND)
        m4 == PortRead(m3, PIC_2_COMMAND)
        pic_2_irr == HwRead(m3.hw, PIC_2_COMMAND)
    IN  [m |-> m4, value |-> ((pic_2_irr * 256) % 65536) + pic_1_irr]

\* PICPair::check_for_spurious
check_for_spurious(m, irq) ==
    IF irq >= 16 THEN [m |-> m, value |-> FALSE]
    ELSE LET isr == read_isr(m)
             pics_irr == isr.value
             expected == 2 ^ irq
         IN  [m |-> isr.m, value |-> BitAnd(pics_irr, expected) # expected]

\* PICPair::end_of_interrupt_master_only
end_of_interrupt_master_only(m) == master_write_command(m, END_OF_INTERRUPT_COMMAND)

\* mutant: line 8 is treated as a master line
end_of_interrupt_gt8(m, irq) ==
    end_of_interrupt_master_only(
        IF irq > 8 THEN slave_write_command(m, END_OF_INTERRUPT_COMMAND) ELSE m)

\* PICPair::end_of_interrupt
end_of_interrupt(m, irq) ==
    end_of_interrupt_master_only(
        IF irq >= 8 THEN slave_write_command(m, END_OF_INTERRUPT_COMMAND) ELSE m)

\* the machine at the start of a driver call
Machine == [hw |-> hw, io |-> << >>, masks |-> masks]

\* bound of the line / vector numbers handed to the driver (u8 arguments)
MaxIrq == 17

\* a call of check_for_spurious(irq)
CheckForSpurious ==
    \E irq \in 0..MaxIrq :
        LET r == check_for_spurious(Machine, irq)
        IN  /\ hw' = r.m.hw
            /\ io' = r.m.io
            /\ pic_op' = [name |-> "check_for_spurious", irq |-> irq, spurious |-> r.value,
                      enable |-> FALSE, offsets |-> <<0, 0>>]
            /\ UNCHANGED <<masks, frameVars, heapVars, selVars, kernVars>>

\* a call of end_of_interrupt(irq)
EndOfInterrupt ==
    \E irq \in 0..MaxIrq :
        LET r == end_of_interrupt(Machine, irq)
        IN  /\ hw' = r.hw
            /\ io' = r.io
            /\ pic_op' = [name |-> "end_of_interrupt", irq |-> irq, spurious |-> FALSE,
                      enable |-> FALSE, offsets |-> <<0, 0>>]
            /\ UNCHANGED <<masks, frameVars, heapVars, selVars, kernVars>>

\* mutant: the timer handler acknowledges without the spurious check
timer_handler_always_ack ==
    LET chk == check_for_spurious(Machine, get_irq_line(InterruptIndex.Timer))
        done == end_of_interrupt(chk.m, InterruptIndex.Timer)
    IN  /\ hw' = done.hw
        /\ io' = done.io
        /\ pic_op' = [name |-> "timer_handler", irq |-> get_irq_line(InterruptIndex.Timer),
                      spurious |-> chk.value,
                      enable |-> FALSE, offsets |-> <<0, 0>>]
        /\ UNCHANGED <<masks, frameVars, heapVars, selVars>>

\* timer_handler, run with the controller pair locked
timer_handler ==
    LET chk == check_for_spurious(Machine, get_irq_line(InterruptIndex.Timer))
        done == IF chk.value THEN chk.m
                ELSE end_of_interrupt(chk.m, InterruptIndex.Timer)
    IN  /\ hw' = done.hw
        /\ io' = done.io
        /\ pic_op' = [name |-> "timer_handler", irq |-> get_irq_line(InterruptIndex.Timer),
                      spurious |-> chk.value,
                      enable |-> FALSE, offsets |-> <<0, 0>>]
        /\ UNCHANGED <<masks, frameVars, heapVars, selVars>>

\* mutant: the keyboard handler acknowledges before it reads the scancode
keyboard_handler_ack_first ==
    LET chk == check_for_spurious(Machine, get_irq_line(InterruptIndex.Keyboard))
        ack == end_of_interrupt(chk.m, InterruptIndex.Keyboard)
        rd == PortRead(ack, KEYBOARD_DATA_PORT)
        scancode == HwRead(ack.hw, KEYBOARD_DATA_PORT)
        done == IF chk.value THEN chk.m
                ELSE SinkPrint(rd, scancode)
    IN  /\ hw' = done.hw
        /\ io' = done.io
        /\ pic_op' = [name |-> "keyboard_handler",
                      irq |-> get_irq_line(InterruptIndex.Keyboard), spurious |-> chk.value,
                      enable |-> FALSE, offsets |-> <<0, 0>>]
        /\ UNCHANGED <<masks, frameVars, heapVars, selVars>>

\* keyboard_handler, run with the controller pair locked
keyboard_handler ==
    LET chk == check_for_spurious(Machine, get_irq_line(InterruptIndex.Keyboard))
        rd == PortRead(chk.m, KEYBOARD_DATA_PORT)
        scancode == HwRead(chk.m.hw, KEYBOARD_DATA_PORT)
        pr == SinkPrint(rd, scancode)
        done == IF chk.value THEN chk.m
                ELSE end_of_interrupt(pr, InterruptIndex.Keyboard)
    IN  /\ hw' = done.hw
        /\ io' = done.io
        /\ pic_op' = [name |-> "keyboard_handler",
                      irq |-> get_irq_line(InterruptIndex.Keyboard), spurious |-> chk.value,
                      enable |-> FALSE, offsets |-> <<0, 0>>]
        /\ UNCHANGED <<masks, frameVars, heapVars, selVars>>

\* register contents the controllers start from
IsrSamples == {0, 1, 2, 3, 128, 130}
IrrSamples == {0, 255}
Scancodes == {30, 158}

InitPic ==
    /\ memory_map = << >>
    /\ next = 0
    /\ returned = << >>
    /\ HeapNew
    /\ SelIdle
    /\ \E im \in IsrSamples, is \in IsrSamples, ir \in IrrSamples, sc \in Scancodes :
          hw = [HwReset EXCEPT !.isr_m = im, !.isr_s = is, !.irr_m = ir, !.irr_s = ir,
                               !.kbd = sc]
    /\ io = << >>
    /\ pic_op = NoPicOp
    /\ masks = NoMasks
    /\ KernIdle

\* a timer / keyboard interrupt handled on its own
TimerInterrupt == timer_handler /\ UNCHANGED kernVars
KeyboardInterrupt == keyboard_handler /\ UNCHANGED kernVars

NextPic == CheckForSpurious \/ EndOfInterrupt \/ TimerInterrupt \/ KeyboardInterrupt

SpecPic == InitPic /\ [][NextPic]_vars

\* vector offsets handed to initialize: the kernel's and another pair
InitOffsets == {<<PIC_1_OFFSET, PIC_2_OFFSET>>, <<64, 72>>}

\* a call of initialize(pic_1_offset, pic_2_offset)
Initialize ==
    \E offsets \in InitOffsets :
        LET r == initialize(Machine, offsets[1], offsets[2])
        IN  /\ hw' = r.hw
            /\ io' = r.io
            /\ masks' = r.masks
            /\ pic_op' = [NoPicOp EXCEPT !.name = "initialize", !.offsets = offsets]
            /\ UNCHANGED <<frameVars, heapVars, selVars, kernVars>>

\* lines handed to set_mask
MaskLines == {1, 8, 15, 16}

\* a call of set_mask(irq, enable)
SetMask ==
    \E irq \in MaskLines, enable \in BOOLEAN, overflow_checks \in BOOLEAN :
        LET r == set_mask(Machine, irq, enable, overflow_checks)
        IN  /\ hw' = r.m.hw
            /\ io' = r.m.io
            /\ masks' = r.m.masks
            /\ pic_op' = [NoPicOp EXCEPT
                             !.name = IF r.panicked THEN "set_mask_overflow" ELSE "set_mask",
                             !.irq = irq, !.enable = enable]
            /\ UNCHANGED <<frameVars, heapVars, selVars, kernVars>>

\* mask register contents the controllers start from
ImrSamples == {184, 255}

InitRemap ==
    /\ memory_map = << >>
    /\ next = 0
    /\ returned = << >>
    /\ HeapNew
    /\ SelIdle
    /\ \E im \in ImrSamples, is \in ImrSamples :
          hw = [HwReset EXCEPT !.imr_m = im, !.imr_s = is]
    /\ io = << >>
    /\ pic_op = NoPicOp
    /\ masks = NoMasks
    /\ KernIdle

NextRemap == Initialize \/ SetMask

SpecRemap == InitRemap /\ [][NextRemap]_vars

----
IsEoi(e) == e.dir = "out" /\ e.value = END_OF_INTERRUPT_COMMAND
             /\ e.port \in {PIC_1_COMMAND, PIC_2_COMMAND}
EoiPorts == [k \in DOMAIN SelectSeq(io, IsEoi) |-> SelectSeq(io, IsEoi)[k].port]
Handlers == {"timer_handler", "keyboard_handler"}

\* C7: end_of_interrupt(line) for line in 8..16 writes the end-of-interrupt
\* command once to the slave's command port and then once to the master's;
\* for line in 0..8 it writes it once to the master's command port only.
C7_EndOfInterruptWrites ==
    (pic_op.name = "end_of_interrupt" /\ pic_op.irq < 16) =>
        /\ pic_op.irq >= 8 => EoiPorts = <<PIC_2_COMMAND, PIC_1_COMMAND>>
        /\ pic_op.irq < 8 => EoiPorts = <<PIC_1_COMMAND>>
        /\ Len(io) = Len(EoiPorts)

C7_Witness ==
    /\ pic_op.name = "end_of_interrupt"
    /\ pic_op.irq = 8
    /\ EoiPorts = <<PIC_2_COMMAND, PIC_1_COMMAND>>

\* C8: a timer or keyboard handler run for a genuine interrupt writes exactly
\* one end-of-interrupt command, to the master controller, and none to the
\* slave controller.
C8_HandlerAcksMasterOnly ==
    (pic_op.name \in Handlers /\ ~pic_op.spurious) => EoiPorts = <<PIC_1_COMMAND>>

\* C9: a timer or keyboard handler run that finds its line's in-service bit
\* clear writes no end-of-interrupt command to either controller, and the
\* keyboard handler then neither reads the keyboard data port nor prints.
C9_SpuriousDropped ==
    [][(pic_op'.name \in Handlers /\ Bit(hw.isr_m, pic_op'.irq) = 0) =>
          /\ pic_op'.spurious
          /\ \A k \in DOMAIN io' :
                /\ ~(io'[k].dir = "out" /\ io'[k].value = END_OF_INTERRUPT_COMMAND)
                /\ io'[k].dir # "print"
                /\ ~(io'[k].dir = "in" /\ io'[k].port = KEYBOARD_DATA_PORT)
          /\ hw'.isr_m = hw.isr_m /\ hw'.isr_s = hw.isr_s]_vars

C9_Witness ==
    /\ pic_op.name = "keyboard_handler"
    /\ pic_op.spurious
    /\ hw.isr_m = 1
    /\ Len(io) = 4

\* C10: check_for_spurious(line) returns false for every line >= 16; for a
\* line in 0..16 it writes 0x0B to the master's and the slave's command port,
\* reads both, and returns true exactly when bit line of the combined value
\* (master in-service register in bits 0-7, slave's in bits 8-15) is clear.
C10_CheckForSpurious ==
    pic_op.name = "check_for_spurious" =>
        IF pic_op.irq >= 16 THEN ~pic_op.spurious
        ELSE /\ io = <<[dir |-> "out", port |-> PIC_1_COMMAND, value |-> 11],
                       [dir |-> "out", port |-> PIC_2_COMMAND, value |-> 11],
                       [dir |-> "in", port |-> PIC_1_COMMAND, value |-> hw.isr_m],
                       [dir |-> "in", port |-> PIC_2_COMMAND, value |-> hw.isr_s]>>
             /\ pic_op.spurious <=> Bit(hw.isr_s * 256 + hw.isr_m, pic_op.irq) = 0

C10_Witness ==
    /\ pic_op.name = "check_for_spurious"
    /\ pic_op.irq = 15
    /\ hw.isr_s = 128
    /\ hw.isr_m = 0
    /\ ~pic_op.spurious

----
IsKbdRead(e) == e.dir = "in" /\ e.port = KEYBOARD_DATA_PORT
IsPrint(e) == e.dir = "print"

\* the position in the log of a handler run of the first end-of-interrupt
\* command (past the end of the log when there is none)
FirstEoi ==
    IF \E k \in DOMAIN io : IsEoi(io[k])
    THEN CHOOSE k \in DOMAIN io : IsEoi(io[k]) /\ \A j \in 1..(k - 1) : ~IsEoi(io[j])
    ELSE Len(io) + 1

\* C22: in a timer or keyboard handler run for a genuine interrupt the
\* end-of-interrupt commands are the last entries of the run's port log:
\* there is one, and from the first one on the log holds nothing else; the
\* keyboard handler reads the keyboard data port exactly once and prints the
\* byte it read exactly once, the read before the print and both before the
\* first end-of-interrupt command; the timer handler neither reads that port
\* nor prints.
C22_AckIsLast ==
    (pic_op.name \in Handlers /\ ~pic_op.spurious) =>
        /\ FirstEoi <= Len(io)
        /\ \A k \in FirstEoi..Len(io) : IsEoi(io[k])
        /\ pic_op.name = "keyboard_handler" =>
              /\ Len(SelectSeq(io, IsKbdRead)) = 1
              /\ Len(SelectSeq(io, IsPrint)) = 1
              /\ \E r, p \in 1..(FirstEoi - 1) :
                    /\ r < p
                    /\ IsKbdRead(io[r])
                    /\ IsPrint(io[p])
                    /\ io[p].value = io[r].value
                    /\ io[r].value = hw.kbd
        /\ pic_op.name = "timer_handler" =>
              /\ SelectSeq(io, IsKbdRead) = << >>
              /\ SelectSeq(io, IsPrint) = << >>

C22_Witness ==
    /\ pic_op.name = "keyboard_handler"
    /\ ~pic_op.spurious
    /\ Len(io) >= 7
    /\ IsKbdRead(io[5])
    /\ io[5].value = 158
    /\ io[6] = [dir |-> "print", port |-> 0, value |-> 158]
    /\ FirstEoi = 7
    /\ IsEoi(io[Len(io)])

----
IsOut(e) == e.dir = "out"
Out(port, value) == [dir |-> "out", port |-> port, value |-> value]

\* C11: initialize(offset_master, offset_slave) writes 0x11 to each command
\* port, then to the data ports the vector offsets, the cascade bytes (4 to the
\* master, 2 to the slave) and the mode bytes 0x01, each of these writes
\* followed by a write of 0 to port 0x80; after initialize(32, 40) a signal on
\* line 0 is delivered at vector 32 and a signal on line 8 at vector 40.
C11_RemapHandshake ==
    pic_op.name = "initialize" =>
        /\ Len(SelectSeq(io, IsOut)) >= 16
        /\ SubSeq(SelectSeq(io, IsOut), 1, 16) =
              << Out(PIC_1_COMMAND, 17), Out(128, 0), Out(PIC_2_COMMAND, 17), Out(128, 0),
                 Out(PIC_1_DATA, pic_op.offsets[1]), Out(128, 0),
                 Out(PIC_2_DATA, pic_op.offsets[2]), Out(128, 0),
                 Out(PIC_1_DATA, 4), Out(128, 0), Out(PIC_2_DATA, 2), Out(128, 0),
                 Out(PIC_1_DATA, 1), Out(128, 0), Out(PIC_2_DATA, 1), Out(128, 0) >>
        /\ hw.seq_m = << >> /\ hw.seq_s = << >>
        /\ pic_op.offsets = <<32, 40>> => Vector(hw, 0) = 32 /\ Vector(hw, 8) = 40

C11_Witness ==
    /\ pic_op.name = "initialize"
    /\ pic_op.offsets = <<32, 40>>
    /\ Len(io) = 20
    /\ Vector(hw, 0) = 32
    /\ Vector(hw, 8) = 40
    /\ Vector(hw, 1) = 33

\* C12: initialize reads each controller's mask before the handshake and writes
\* it back after the last handshake byte: whatever the masks were, both mask
\* registers hold after initialize the values they held before it.
C12_MasksPreserved ==
    [][pic_op'.name = "initialize" =>
          /\ hw'.imr_m = hw.imr_m
          /\ hw'.imr_s = hw.imr_s
          /\ Len(io') >= 4
          /\ SubSeq(io', 1, 2) = << [dir |-> "in", port |-> PIC_1_DATA, value |-> hw.imr_m],
                                    [dir |-> "in", port |-> PIC_2_DATA, value |-> hw.imr_s] >>
          /\ SubSeq(io', Len(io') - 1, Len(io')) =
                << Out(PIC_1_DATA, hw.imr_m), Out(PIC_2_DATA, hw.imr_s) >>]_vars

C12_Witness ==
    /\ pic_op.name = "initialize"
    /\ hw.imr_m = 184
    /\ hw.imr_s = 255
    /\ masks = [master |-> 184, slave |-> 255]
    /\ io[Len(io)] = Out(PIC_2_DATA, 255)

\* C13: set_mask(line, enabled) for a line in 0..15 works on the master for
\* lines 0-7 and on the slave for lines 8-15: it sets (enabled) or clears (not
\* enabled) bit line mod 8 of that controller's mask, leaves its other seven
\* bits as they were and leaves the other controller's mask untouched.
C13_SetMaskOneBit ==
    [][(pic_op'.name \in {"set_mask", "set_mask_overflow"} /\ pic_op'.irq < 16) =>
          LET line == pic_op'.irq % 8
              before == IF pic_op'.irq < 8 THEN hw.imr_m ELSE hw.imr_s
              after == IF pic_op'.irq < 8 THEN hw'.imr_m ELSE hw'.imr_s
          IN  /\ pic_op'.name = "set_mask"
              /\ Bit(after, line) = (IF pic_op'.enable THEN 1 ELSE 0)
              /\ \A k \in (0..7) \ {line} : Bit(after, k) = Bit(before, k)
              /\ after \in 0..255
              /\ IF pic_op'.irq < 8 THEN hw'.imr_s = hw.imr_s ELSE hw'.imr_m = hw.imr_m
              /\ \A k \in DOMAIN io' :
                    io'[k].port = (IF pic_op'.irq < 8 THEN PIC_1_DATA ELSE PIC_2_DATA)]_vars

C13_Witness ==
    /\ pic_op.name = "set_mask"
    /\ pic_op.irq = 15
    /\ ~pic_op.enable
    /\ hw.imr_s = 127
    /\ hw.imr_m = 184
    /\ io = << [dir |-> "in", port |-> PIC_2_DATA, value |-> 255], Out(PIC_2_DATA, 127) >>

(***************************************************************************)
(* Kernel entry, installation of the trap dispatch, interrupts and         *)
(* exceptions at run time      main.rs, memory/mod.rs, interrupt_manager.rs *)
(***************************************************************************)

\* mutant: the page-fault vector is bound as well
IDT_with_page_fault ==
    [v \in Vectors |->
        IF v = 3 THEN "breakpoint_handler"
        ELSE IF v = 8 THEN "double_fault_handler"
        ELSE IF v = 14 THEN "page_fault_handler"
        ELSE IF v = InterruptIndex.Timer THEN "timer_handler"
        ELSE IF v = InterruptIndex.Keyboard THEN "keyboard_handler"
        ELSE "missing"]

\* the IDT lazy_static: idt.breakpoint (vector 3), idt.double_fault (vector 8),
\* idt[Timer], idt[Keyboard]
IDT ==
    [v \in Vectors |->
        IF v = 3 THEN "breakpoint_handler"
        ELSE IF v = 8 THEN "double_fault_handler"
        ELSE IF v = InterruptIndex.Timer THEN "timer_handler"
        ELSE IF v = InterruptIndex.Keyboard THEN "keyboard_handler"
        ELSE "missing"]

\* mutant: interrupts are enabled before the controllers are remapped
InitOrder_enable_early == <<"gdt", "cs", "tss", "idt", "sti", "pic">>

\* the statements of interrupt_manager::init in order
InitOrder == <<"gdt", "cs", "tss", "idt", "pic", "sti">>

\* pages of Page::range_inclusive(HEAP_START, HEAP_START + HEAP_SIZE - 1);
\* HEAP_START is page aligned
HeapPages == ((HEAP_SIZE - 1) \div PAGE_SIZE) + 1

\* mutant: the outcome of the allocations is not looked at
map_page_unchecked(frames, nxt, need) ==
    LET left == Max(Len(frames) - nxt, 0)
    IN  IF left = 0 THEN [ok |-> TRUE, calls |-> 1, tables |-> need]
        ELSE IF left - 1 < need
             THEN [ok |-> TRUE, calls |-> left + 1, tables |-> need - (left - 1)]
        ELSE [ok |-> TRUE, calls |-> 1 + need, tables |-> 0]

\* one iteration of init_heap's loop: allocate_frame().ok_or(..)? for the page,
\* then map_to(..)?, which takes one more frame from the allocator for every
\* paging structure the page still lacks.  left frames remain; the iteration
\* fails at the first call that returns None.
map_page(frames, nxt, need) ==
    LET left == Max(Len(frames) - nxt, 0)
    IN  IF left = 0 THEN [ok |-> FALSE, calls |-> 1, tables |-> need]
        ELSE IF left - 1 < need
             THEN [ok |-> FALSE, calls |-> left + 1, tables |-> need - (left - 1)]
        ELSE [ok |-> TRUE, calls |-> 1 + need, tables |-> 0]

\* kernel_main runs: no handler has interrupted it
MainRuns == ctx.name = "none"

\* init_heap: the loop over the heap pages
init_heap_page ==
    /\ MainRuns
    /\ pc.at = "map"
    /\ pc.k < HeapPages
    /\ LET frames == usable_frames(memory_map)
           r == map_page(frames, next, tables)
       IN  /\ next' = next + r.calls
           /\ returned' = returned \o [i \in 1..r.calls |-> Nth(frames, next + i - 1)]
           /\ tables' = r.tables
           /\ pc' = IF r.ok THEN [at |-> "map", k |-> pc.k + 1]
                    ELSE [at |-> "panic", k |-> 0]
    /\ UNCHANGED <<memory_map, heapVars, selVars, picVars>>
    /\ UNCHANGED <<cpu, idt, ctx, pics_lock, heap_lock, acall, sink>>

\* init_heap after the loop: ALLOCATOR.lock().init(HEAP_START, HEAP_SIZE); Ok(())
init_heap_finish ==
    /\ MainRuns
    /\ pc.at = "map"
    /\ pc.k = HeapPages
    /\ heap_lock = "free"
    /\ \E address \in HeapStarts, size \in HeapSizes : init(address, size)
    /\ pc' = [at |-> "install", k |-> 1]
    /\ UNCHANGED <<tables, cpu, idt, ctx, pics_lock, heap_lock, acall, sink>>

\* .expect("Failed to initialize the heap") on an Err: the panic handler
\* prints the message and enters hlt_loop
panic ==
    /\ MainRuns
    /\ pc.at = "panic"
    /\ sink' = "panic"
    /\ pc' = [at |-> "panic_hlt", k |-> 0]
    /\ UNCHANGED <<frameVars, heapVars, selVars, picVars>>
    /\ UNCHANGED <<tables, cpu, idt, ctx, pics_lock, heap_lock, acall>>

\* mutant: the guard taken for the remap is kept (never dropped) by init
interrupt_manager_init_keeps_lock ==
    /\ MainRuns
    /\ pc.at = "install"
    /\ acall = NoCall
    /\ LET step == InitOrder[pc.k]
       IN  /\ cpu' = IF step = "gdt" THEN [cpu EXCEPT !.gdt = TRUE]
                     ELSE IF step = "cs" THEN [cpu EXCEPT !.cs = TRUE]
                     ELSE IF step = "tss" THEN [cpu EXCEPT !.tss = TRUE]
                     ELSE IF step = "idt" THEN [cpu EXCEPT !.idtr = TRUE]
                     ELSE IF step = "sti" THEN [cpu EXCEPT !.IF = TRUE]
                     ELSE cpu
           /\ idt' = IF step = "idt" THEN IDT ELSE idt
           /\ IF step = "pic"
              THEN /\ pics_lock = "free"
                   /\ pics_lock' = "main"
                   /\ LET r == initialize(Machine, PIC_1_OFFSET, PIC_2_OFFSET)
                      IN  /\ hw' = r.hw
                          /\ io' = r.io
                          /\ masks' = r.masks
                          /\ pic_op' = [NoPicOp EXCEPT !.name = "initialize",
                                           !.offsets = <<PIC_1_OFFSET, PIC_2_OFFSET>>]
              ELSE UNCHANGED <<picVars, pics_lock>>
    /\ pc' = IF pc.k < Len(InitOrder) THEN [at |-> "install", k |-> pc.k + 1]
             ELSE [at |-> "hello", k |-> 0]
    /\ UNCHANGED <<frameVars, heapVars, selVars>>
    /\ UNCHANGED <<tables, ctx, heap_lock, acall, sink>>

\* interrupt_manager::init, one statement at a time
interrupt_manager_init ==
    /\ MainRuns
    /\ pc.at = "install"
    /\ acall = NoCall
    /\ LET step == InitOrder[pc.k]
       IN  /\ cpu' = IF step = "gdt" THEN [cpu EXCEPT !.gdt = TRUE]
                     ELSE IF step = "cs" THEN [cpu EXCEPT !.cs = TRUE]
                     ELSE IF step = "tss" THEN [cpu EXCEPT !.tss = TRUE]
                     ELSE IF step = "idt" THEN [cpu EXCEPT !.idtr = TRUE]
                     ELSE IF step = "sti" THEN [cpu EXCEPT !.IF = TRUE]
                     ELSE cpu
           /\ idt' = IF step = "idt" THEN IDT ELSE idt
           /\ IF step = "pic"
              THEN /\ pics_lock = "free"
                   /\ LET r == initialize(Machine, PIC_1_OFFSET, PIC_2_OFFSET)
                      IN  /\ hw' = r.hw
                          /\ io' = r.io
                          /\ masks' = r.masks
                          /\ pic_op' = [NoPicOp EXCEPT !.name = "initialize",
                                           !.offsets = <<PIC_1_OFFSET, PIC_2_OFFSET>>]
              ELSE UNCHANGED picVars
    /\ pc' = IF pc.k < Len(InitOrder) THEN [at |-> "install", k |-> pc.k + 1]
             ELSE [at |-> "hello", k |-> 0]
    /\ UNCHANGED <<frameVars, heapVars, selVars>>
    /\ UNCHANGED <<tables, ctx, pics_lock, heap_lock, acall, sink>>

\* kernel_main after init: the two println! and the entry into hlt_loop
kernel_main_print ==
    /\ MainRuns
    /\ pc.at \in {"hello", "pi"}
    /\ acall = NoCall
    /\ sink' = pc.at
    /\ pc' = IF pc.at = "hello" THEN [at |-> "pi", k |-> 0] ELSE [at |-> "hlt", k |-> 0]
    /\ UNCHANGED <<frameVars, heapVars, selVars, picVars>>
    /\ UNCHANGED <<tables, cpu, idt, ctx, pics_lock, heap_lock, acall>>

\* statements of kernel_main between which kernel code that uses the alloc
\* crate calls the global allocator: after init_heap, before hlt_loop
CallPoints == {"hello", "pi"}

\* request shapes of the kernel's allocator calls
KernelLayouts == {[size |-> 1, align |-> 1]}

\* GlobalAlloc::alloc / dealloc entered: let mut allocator = self.lock()
alloc_lock ==
    /\ MainRuns
    /\ pc.at \in CallPoints
    /\ acall = NoCall
    /\ heap_lock = "free"
    /\ heap_lock' = "main"
    /\ \/ \E layout \in KernelLayouts :
             acall' = [op |-> "alloc", layout |-> layout, ptr |-> NULL]
       \/ \E ptr \in DOMAIN live, layout \in KernelLayouts :
             acall' = [op |-> "dealloc", layout |-> layout, ptr |-> ptr]
    /\ UNCHANGED <<frameVars, heapVars, selVars, picVars>>
    /\ UNCHANGED <<pc, tables, cpu, idt, ctx, pics_lock, sink>>

\* the body of the call and its return, which drops the guard
alloc_run ==
    /\ MainRuns
    /\ acall # NoCall
    /\ IF acall.op = "alloc" THEN alloc(acall.layout)
       ELSE dealloc(acall.ptr, acall.layout)
    /\ sink' = IF last'.diag # "" THEN "allocator" ELSE sink
    /\ heap_lock' = "free"
    /\ acall' = NoCall
    /\ UNCHANGED <<pc, tables, cpu, idt, ctx, pics_lock>>

\* interrupt lines that signal, and exceptions the CPU raises
KernelLines == {0, 1}
TrapVectors == {3, 13}

BitSet(v, k) == IF Bit(v, k) = 1 THEN v ELSE v + 2 ^ k
BitClear(v, k) == IF Bit(v, k) = 1 THEN v - 2 ^ k ELSE v

\* a device raises its line: the request is latched in the controller
irq_raise ==
    /\ pc.at # "off"
    /\ \E line \in KernelLines :
          /\ Bit(IF line < 8 THEN hw.irr_m ELSE hw.irr_s, line % 8) = 0
          /\ hw' = IF line < 8 THEN [hw EXCEPT !.irr_m = BitSet(hw.irr_m, line)]
                   ELSE [hw EXCEPT !.irr_s = BitSet(hw.irr_s, line % 8)]
    /\ UNCHANGED <<frameVars, heapVars, selVars, io, pic_op, masks, kernVars>>

\* the handler the CPU enters for a vector: the bound one, the double-fault
\* handler when the entry is missing
Dispatch(vector, ret_if) ==
    [name |-> IF idt[vector] # "missing" THEN idt[vector]
              ELSE IF idt[8] # "missing" THEN idt[8] ELSE "triple_fault",
     vector |-> vector, pos |-> "entry", ret_if |-> ret_if]

\* the CPU raises an exception while kernel_main executes instructions
trap ==
    /\ MainRuns
    /\ cpu.idtr
    /\ pc.at \notin {"hlt", "panic_hlt"}
    /\ \E vector \in TrapVectors : ctx' = Dispatch(vector, cpu.IF)
    /\ cpu' = [cpu EXCEPT !.IF = FALSE]
    /\ UNCHANGED <<frameVars, heapVars, selVars, picVars>>
    /\ UNCHANGED <<pc, tables, idt, pics_lock, heap_lock, acall, sink>>

\* a line requests service: latched and not masked (a slave line also needs
\* the master's cascade line 2 unmasked); a line in service blocks the lines
\* of its controller that have no higher priority
Requests(h, line) ==
    IF line < 8
    THEN /\ Bit(h.irr_m, line) = 1
         /\ Bit(h.imr_m, line) = 0
         /\ \A k \in 0..line : Bit(h.isr_m, k) = 0
    ELSE /\ Bit(h.irr_s, line - 8) = 1
         /\ Bit(h.imr_s, line - 8) = 0
         /\ Bit(h.imr_m, 2) = 0
         /\ \A k \in 0..(line - 8) : Bit(h.isr_s, k) = 0
         /\ \A k \in 0..2 : Bit(h.isr_m, k) = 0

\* priority of a line, lower first: 0, 1, the slave's 8..15 in place of 2, 3..7
Rank(line) == IF line < 8 THEN line * 8 ELSE 16 + (line - 8)

\* the CPU accepts the interrupt of the requesting line of highest priority
deliver ==
    /\ MainRuns
    /\ cpu.IF
    /\ cpu.idtr
    /\ \E line \in KernelLines :
          /\ Requests(hw, line)
          /\ \A other \in KernelLines : Requests(hw, other) => Rank(line) <= Rank(other)
          /\ hw' = IF line < 8
                   THEN [hw EXCEPT !.irr_m = BitClear(hw.irr_m, line),
                                   !.isr_m = BitSet(hw.isr_m, line)]
                   ELSE [hw EXCEPT !.irr_s = BitClear(hw.irr_s, line - 8),
                                   !.isr_s = BitSet(hw.isr_s, line - 8),
                                   !.isr_m = BitSet(hw.isr_m, 2)]
          /\ ctx' = Dispatch(Vector(hw, line), TRUE)
    /\ cpu' = [cpu EXCEPT !.IF = FALSE]
    /\ UNCHANGED <<frameVars, heapVars, selVars, io, pic_op, masks>>
    /\ UNCHANGED <<pc, tables, idt, pics_lock, heap_lock, acall, sink>>

\* timer_handler entered from the vector table: PICS.lock() and the body
timer_interrupt ==
    /\ ctx.name = "timer_handler"
    /\ ctx.pos = "entry"
    /\ pics_lock = "free"
    /\ pics_lock' = "irq"
    /\ timer_handler
    /\ ctx' = [ctx EXCEPT !.pos = "done"]
    /\ UNCHANGED <<pc, tables, cpu, idt, heap_lock, acall, sink>>

\* mutant: the keyboard handler allocates a buffer for the scancode
keyboard_interrupt_allocates ==
    /\ ctx.name = "keyboard_handler"
    /\ ctx.pos = "entry"
    /\ pics_lock = "free"
    /\ pics_lock' = "irq"
    /\ heap_lock = "free"
    /\ heap_lock' = "irq"
    /\ keyboard_handler
    /\ sink' = IF pic_op'.spurious THEN sink ELSE "scancode"
    /\ ctx' = [ctx EXCEPT !.pos = "done"]
    /\ UNCHANGED <<pc, tables, cpu, idt, acall>>

\* keyboard_handler entered from the vector table: PICS.lock() and the body
keyboard_interrupt ==
    /\ ctx.name = "keyboard_handler"
    /\ ctx.pos = "entry"
    /\ pics_lock = "free"
    /\ pics_lock' = "irq"
    /\ keyboard_handler
    /\ sink' = IF pic_op'.spurious THEN sink ELSE "scancode"
    /\ ctx' = [ctx EXCEPT !.pos = "done"]
    /\ UNCHANGED <<pc, tables, cpu, idt, heap_lock, acall>>

\* breakpoint_handler: println! of the stack frame
breakpoint_handler ==
    /\ ctx.name = "breakpoint_handler"
    /\ ctx.pos = "entry"
    /\ sink' = "breakpoint"
    /\ ctx' = [ctx EXCEPT !.pos = "done"]
    /\ UNCHANGED <<frameVars, heapVars, selVars, picVars>>
    /\ UNCHANGED <<pc, tables, cpu, idt, pics_lock, heap_lock, acall>>

\* mutant: the double-fault handler prints and returns
double_fault_handler_returns ==
    /\ ctx.name = "double_fault_handler"
    /\ ctx.pos = "entry"
    /\ sink' = "double_fault"
    /\ ctx' = [ctx EXCEPT !.pos = "done"]
    /\ UNCHANGED <<frameVars, heapVars, selVars, picVars>>
    /\ UNCHANGED <<pc, tables, cpu, idt, pics_lock, heap_lock, acall>>

\* double_fault_handler: panic!, whose handler prints and enters hlt_loop with
\* interrupts disabled
double_fault_handler ==
    /\ ctx.name = "double_fault_handler"
    /\ ctx.pos = "entry"
    /\ sink' = "double_fault"
    /\ ctx' = [ctx EXCEPT !.pos = "hlt"]
    /\ UNCHANGED <<frameVars, heapVars, selVars, picVars>>
    /\ UNCHANGED <<pc, tables, cpu, idt, pics_lock, heap_lock, acall>>

\* a handler returns: its lock guard is dropped and iretq restores the
\* interrupt flag of the interrupted code
iretq ==
    /\ ctx.pos = "done"
    /\ ctx' = NoCtx
    /\ cpu' = [cpu EXCEPT !.IF = ctx.ret_if]
    /\ pics_lock' = IF pics_lock = "irq" THEN "free" ELSE pics_lock
    /\ heap_lock' = IF heap_lock = "irq" THEN "free" ELSE heap_lock
    /\ UNCHANGED <<frameVars, heapVars, selVars, picVars>>
    /\ UNCHANGED <<pc, tables, idt, acall, sink>>

\* frames of the usable region and paging structures missing at boot
KernelFrameCounts == {0, 2, 20, 33}
TableCounts == {0, 3}
KernelMaps ==
    {<< [start |-> 0, end |-> 1, region_type |-> "Reserved"],
        [start |-> 1, end |-> 1 + n, region_type |-> "Usable"] >> : n \in KernelFrameCounts}

\* masks the firmware leaves in the controllers: all lines but 0 and 1 masked
KernelMasks == {<<252, 255>>}

\* kernel_main entered from the boot loader
InitKernel ==
    /\ memory_map \in KernelMaps
    /\ next = 0
    /\ returned = << >>
    /\ HeapNew
    /\ SelIdle
    /\ \E m \in KernelMasks :
          hw = [HwReset EXCEPT !.imr_m = m[1], !.imr_s = m[2]]
    /\ io = << >>
    /\ pic_op = NoPicOp
    /\ masks = NoMasks
    /\ pc = [at |-> "map", k |-> 0]
    /\ tables \in TableCounts
    /\ cpu = CpuBoot
    /\ idt = EmptyIdt
    /\ ctx = NoCtx
    /\ pics_lock = "free"
    /\ heap_lock = "free"
    /\ acall = NoCall
    /\ sink = ""

NextKernel ==
    \/ init_heap_page
    \/ init_heap_finish
    \/ panic
    \/ interrupt_manager_init
    \/ kernel_main_print
    \/ alloc_lock
    \/ alloc_run
    \/ irq_raise
    \/ trap
    \/ deliver
    \/ timer_interrupt
    \/ keyboard_interrupt
    \/ breakpoint_handler
    \/ double_fault_handler
    \/ iretq

SpecKernel == InitKernel /\ [][NextKernel]_vars

----
\* every statement of interrupt_manager::init before the enable has taken
\* effect
Installed ==
    /\ cpu.gdt /\ cpu.cs /\ cpu.tss /\ cpu.idtr
    /\ hw.off_m = 32 /\ hw.off_s = 40
    /\ hw.seq_m = << >> /\ hw.seq_s = << >>

\* C14: interrupt delivery is enabled last during install: the segment-table
\* load, the code-segment switch, the task-state-segment load, the vector-table
\* load and the controller remap to offsets 32 and 40 are all done whenever
\* delivery is enabled, so whenever a timer or keyboard handler runs or has run.
C14_InterruptsEnabledLast ==
    (\/ cpu.IF
     \/ ctx.name \in Handlers
     \/ pic_op.name \in Handlers) => Installed

C14_Witness ==
    /\ ctx.name = "timer_handler"
    /\ ctx.pos = "done"
    /\ pic_op.name = "timer_handler"
    /\ Installed
    /\ pc.at = "hello"

BoundVectors == {3, 8, 32, 33}

C17_LocksNeverBothHeld == ~(pics_lock # "free" /\ heap_lock # "free")

\* C17 amended: no context holds both locks.  A handler never takes the heap
\* lock and leaves the heap as it is, an allocator call leaves the controller
\* pair as it is; the two locks are held at the same moment only by different
\* contexts, when a handler interrupts an allocator call.
C17_NoContextHoldsBoth ==
    /\ [](heap_lock # "irq")
    /\ [](pics_lock # "main")
    /\ [](pics_lock = "irq" => ctx.name \in Handlers)
    /\ [](heap_lock = "main" => acall # NoCall)
    /\ [][(acall # NoCall /\ acall' = NoCall) => UNCHANGED picVars]_vars
    /\ [][ctx.name # "none" => UNCHANGED heapVars]_vars

C17_Witness ==
    /\ pics_lock = "irq"
    /\ heap_lock = "main"
    /\ acall.op = "dealloc"
    /\ ctx.name = "keyboard_handler"

\* C18: when the frame allocator returns None while the heap is being mapped,
\* for a heap page's frame or for a paging-structure frame, init_heap fails:
\* the heap allocator's init is not run, the kernel prints the panic and halts,
\* and interrupts are never enabled.
C18_ExhaustionIsFatal ==
    /\ []((\E i \in DOMAIN returned : returned[i] = NONE) =>
            pc.at \in {"panic", "panic_hlt"})
    /\ [](pc.at \in {"panic", "panic_hlt"} =>
            /\ ~initialized
            /\ \A i \in Classes : heads[i] = NULL
            /\ ~cpu.IF
            /\ ~cpu.idtr
            /\ pc.at = "panic_hlt" => sink = "panic")
    /\ [][pc.at \in {"panic", "panic_hlt"} =>
            /\ pc'.at \in {"panic", "panic_hlt"}
            /\ ctx' = NoCtx]_vars

C18_Witness ==
    /\ pc.at = "panic_hlt"
    /\ sink = "panic"
    /\ Len(returned) = 3
    /\ returned[3] = NONE
    /\ returned[2] # NONE
    /\ tables = 2
    /\ ~initialized

====
